---------------------------- MODULE Spec2Model ----------------------------
(***************************************************************************)
(* Thinker-Qt: the ThinkerManager (src/src/thinkermanager.cpp) and the     *)
(* ThinkerRunner state machine it coordinates (declared in                 *)
(* src/src/thinkerrunner.h).                                               *)
(*                                                                         *)
(* Threads: the manager ("ctl") thread, one handle thread ("hdl") that     *)
(* drops handles and issues runner requests, and one pooled worker per     *)
(* ThinkerRunner.  Every region guarded by one QMutexLocker is one atomic  *)
(* action; a QWaitCondition is the set of threads blocked on it.           *)
(* A failed hopefully(...) is fatal: it records its codeplace in           *)
(* `failure` and the program stops.                                        *)
(***************************************************************************)
EXTENDS Naturals, FiniteSets, Sequences, TLC

\* ------------------------------------------------------------------ bounds
NumThinkers == 2
MaxRunners == 2
NumPoolThreads == 2
\* Runners created in the specification of the runner's directly called slots
SlotRunners == 2
\* Runners created in the specification of ensureThinkersPaused
PauseRunners == 2
\* Runners created in the specifications of cancel and of ensureThinkerFinished
CancelRunners == 1
FinishRunners == 1
\* Runners created in the specification of ensureThinkersResumed and the destructor
ResumeRunners == 2
\* Runners created in the specification of the thread pushes
PushRunners == 2
\* Runners created in the specification of several waiters on one runner
WaitRunners == 1

Thinkers == 1..NumThinkers
Runners == 1..MaxRunners
PoolThreads == 1..NumPoolThreads
Callers == {"ctl", "hdl"}

\* ------------------------------------------------------------------ types
\* thinkerrunner.h:60-69 (enum State); NoRunner: the object is not constructed
RunnerStates ==
    {"Initializing", "Thinking", "Pausing", "Paused",
     "Canceling", "Canceled", "Resuming", "Finished"}

\* The "=>" comments of the enum State, thinkerrunner.h:61-68
EnumEdges ==
    {<<"Initializing", "Thinking">>,
     <<"Thinking", "Pausing">>, <<"Thinking", "Canceling">>, <<"Thinking", "Finished">>,
     <<"Pausing", "Paused">>,
     <<"Paused", "Canceled">>, <<"Paused", "Resuming">>,
     <<"Canceling", "Canceled">>,
     <<"Resuming", "Thinking">>,
     <<"Finished", "Canceled">>}

TerminalStates == {"Canceled", "Finished"}

VARIABLES
    state,           \* ThinkerRunner::state, per runner ("NoRunner" before construction)
    holder,          \* ThinkerRunner::holder: the thinker of each runner (0: none)
    thinkerState,    \* ThinkerBase::state, per thinker
    thinkerMap,      \* ThinkerManager::thinkerMap, a set of <<thinker, runner>>
    threadMap,       \* ThinkerManager::threadMap, a set of <<thread, runner>>
    mapsMutex,       \* ThinkerManager::mapsMutex: "free" or the thread holding it
    runnerSetToPush, \* ThinkerManager::runnerSetToPush
    pushDone,        \* per runner: doThreadPushIfNecessary has moved the thinker
    pushEvent,       \* a queued pushToThreadMayBeNeeded() is pending on ctl
    wpc,             \* position of each runner's worker in ThinkerRunner::run
    wthread,         \* the pool thread running each runner (0: none)
    wasCanceled,     \* run()'s local: the body was unwound by StopException
    sigWait,         \* per runner: threads blocked on stateChangeSignal
    pc,              \* position of ctl and hdl in the operation they execute
    thk,             \* per caller: the thinker argument of the operation
    rnr,             \* per caller: the local `runner` of the operation
    snap,            \* ctl: mapCopy of ensureThinkersPaused / iterated map
    todo,            \* ctl: runners the iterator has not visited yet
    finishedLog,     \* per runner: the finished(thinker, canceled) signals emitted
    failure,         \* "none", or the codeplace of the hopefully() that failed
    cancelOnPausing  \* per runner: a cancel request found the runner Pausing

vars ==
    <<state, holder, thinkerState, thinkerMap, threadMap, mapsMutex,
      runnerSetToPush, pushDone, pushEvent, wpc, wthread, wasCanceled,
      sigWait, pc, thk, rnr, snap, todo, finishedLog, failure,
      cancelOnPausing>>

\* ---------------------------------------------------------------- helpers
Min(S) == CHOOSE x \in S : \A y \in S : x <= y

\* QMap::value(key, nullptr) on a map kept as a set of pairs (0 is nullptr)
MapValue(m, k) ==
    IF \E p \in m : p[1] = k
    THEN (CHOOSE p \in m : p[1] = k)[2]
    ELSE 0

MapContains(m, k) == \E p \in m : p[1] = k

\* QMap::insert(key, value): replaces the value of an existing key
MapInsert(m, k, v) == {p \in m : p[1] # k} \cup {<<k, v>>}

\* QMap::remove(key): the map without the key
MapRemove(m, k) == {p \in m : p[1] # k}

\* QMap::remove(key)'s result: the number of entries removed
MapRemoveCount(m, k) == Cardinality({p \in m : p[1] = k})

MapRunners(m) == {p[2] : p \in m}

\* QWaitCondition::wakeOne on stateChangeSignal of runner r (thinkerrunner.h:82):
\* the possible wait sets afterwards
WakeOne(sw, r) ==
    IF sw[r] = {}
    THEN {sw}
    ELSE {[sw EXCEPT ![r] = @ \ {w}] : w \in sw[r]}

Running == failure = "none"

Fail(cp) ==
    /\ failure' = cp
    /\ UNCHANGED <<state, holder, thinkerState, thinkerMap, threadMap, mapsMutex,
                   runnerSetToPush, pushDone, pushEvent, wpc, wthread, wasCanceled,
                   sigWait, pc, thk, rnr, snap, todo, finishedLog,
                   cancelOnPausing>>

\* tracked<State> assignment
SetState(r, s) == state' = [state EXCEPT ![r] = s]


\* Everything but the runner's own fields and the wait set of its signal
RunnerFrame ==
    UNCHANGED <<holder, thinkerState, thinkerMap, threadMap, mapsMutex,
                runnerSetToPush, pushDone, pushEvent, wthread, finishedLog,
                failure, thk, rnr, snap, todo>>

\* ------------------------------------------- ThinkerRunner: request methods
\* requestPauseCore(isCanceledOkay): Thinking becomes Pausing; a canceled runner
\* is left alone when that is okay; anything else fails the hopefully
RequestPauseFails(s, isCanceledOkay) ==
    ~(s = "Thinking" \/ (s = "Canceled" /\ isCanceledOkay))

RequestPauseTarget(s) == IF s = "Thinking" THEN "Pausing" ELSE s

\* requestResumeCore(isCanceledOkay): Paused becomes Resuming; any other state
\* is left alone when isCanceledOkay, and fails the hopefully otherwise
RequestResumeFails(s, isCanceledOkay) == s # "Paused" /\ ~isCanceledOkay

\* A requestResumeCore that also restarts a canceled runner
RequestResumeAlsoCanceled(s) ==
    IF s \in {"Paused", "Canceled"} THEN "Resuming" ELSE s

RequestResumeTarget(s) == IF s = "Paused" THEN "Resuming" ELSE s

\* requestCancelCore(isAlreadyCanceledOkay): valid from every non-terminal state
RequestCancelFails(s, isAlreadyCanceledOkay) ==
    s = "Canceled" /\ ~isAlreadyCanceledOkay

\* A requestCancelCore that sets Canceling in every state before the end
RequestCancelFromAnyState(s) ==
    CASE s \in {"Initializing", "Thinking", "Pausing", "Resuming"} -> "Canceling"
      [] s = "Paused" -> "Canceled"
      [] s = "Finished" -> "Canceled"
      [] OTHER -> s

\* A requestCancelCore that leaves a pending pause request in place
RequestCancelKeepsPausing(s) ==
    CASE s = "Thinking" -> "Canceling"
      [] s = "Paused" -> "Canceled"
      [] s = "Finished" -> "Canceled"
      [] OTHER -> s

RequestCancelTarget(s) ==
    CASE s = "Thinking" -> "Canceling"
      [] s = "Pausing" -> "Canceling"
      [] s = "Paused" -> "Canceled"
      [] s = "Finished" -> "Canceled"
      [] OTHER -> s

\* The signalMutex region of a request: the state change and the pulse
RequestEffect(r, target) ==
    /\ SetState(r, target)
    /\ \E nsw \in WakeOne(sigWait, r) : sigWait' = nsw

\* What a cancel request on r found, for the properties
CancelNoted(r) ==
    cancelOnPausing' = [cancelOnPausing EXCEPT ![r] = @ \/ state[r] = "Pausing"]

\* waitForPauseCore / waitForFinished / waitForResume: the states that end the wait
PauseReached(s) == s \in {"Paused", "Canceled"}

FinishedReached(s) == s \in {"Finished", "Canceled"}

ResumeReached(s) == s # "Resuming"

\* isPaused / isCanceled / isFinished: snapshots under signalMutex
IsPaused(r) == state[r] = "Paused"

IsCanceled(r) == state[r] = "Canceled"

IsFinished(r) == state[r] = "Finished"

\* ------------------------------------------------ ThinkerManager: the maps
\* An addToThinkerMap without the hopefully
AddToThinkerMapUnchecked(m, t) == FALSE

\* addToThinkerMap: the fatal hopefully, then the insertion
AddToThinkerMapFails(m, t) == MapContains(m, t)

AddToThinkerMap(m, t, r) == MapInsert(m, t, r)

\* removeFromThinkerMap: the two hopefullys and the thinker's new state
RemoveFromThinkerMapFails(m, t, ts) ==
    \/ MapRemoveCount(m, t) # 1
    \/ ts # "ThinkerOwnedByRunner"

RemovedThinkerState(canceled) ==
    IF canceled THEN "ThinkerCanceled" ELSE "ThinkerFinished"

\* maybeGetRunnerForThinker: the lookup and the hopefully on a null result
LookupFails(m, t, ts) ==
    MapValue(m, t) = 0 /\ ts \notin {"ThinkerCanceled", "ThinkerFinished"}

\* ---------------------------------------------------- the pooled workers
WorkerActive(r) == wpc[r] \notin {"none", "queued", "done"}

FreeThreads == {th \in PoolThreads : \A r \in Runners : ~(WorkerActive(r) /\ wthread[r] = th)}

\* QThreadPool picks the runnable up; ThinkerRunner::run binds to the thread and
\* calls waitForPushToThread: insert, threadsNeedPushing.wakeOne (the manager
\* thread, if it waits in processThreadPushesUntil), emit, and block on
\* threadsWerePushed
RunBegin(r) ==
    /\ Running
    /\ wpc[r] = "queued"
    /\ FreeThreads # {}
    /\ wthread' = [wthread EXCEPT ![r] = Min(FreeThreads)]
    /\ runnerSetToPush' = runnerSetToPush \cup {r}
    /\ pushEvent' = TRUE
    /\ wpc' = [wpc EXCEPT ![r] = "pushwait"]
    /\ pc' = [pc EXCEPT !["ctl"] = IF @ = "pp_wait" THEN "pp_drain" ELSE @]
    /\ UNCHANGED <<state, holder, thinkerState, thinkerMap, threadMap, mapsMutex,
                   pushDone, wasCanceled, sigWait, thk, rnr, snap, todo,
                   finishedLog, failure, cancelOnPausing>>

\* addToThreadMap, called by run() once the push was acknowledged
AddToThreadMap(r) ==
    /\ Running
    /\ wpc[r] = "pushed"
    /\ mapsMutex = "free"
    /\ IF MapContains(threadMap, wthread[r])
       THEN Fail("addToThreadMap")
       ELSE /\ threadMap' = MapInsert(threadMap, wthread[r], r)
            /\ wpc' = [wpc EXCEPT ![r] = "registered"]
            /\ UNCHANGED <<state, holder, thinkerState, thinkerMap, mapsMutex,
                           runnerSetToPush, pushDone, pushEvent, wthread, wasCanceled,
                           sigWait, pc, thk, rnr, snap, todo, finishedLog,
                           failure, cancelOnPausing>>

\* run(): the tracked transition Initializing -> Thinking, then think() starts
BeginThinking(r) ==
    /\ Running
    /\ wpc[r] = "registered"
    /\ IF state[r] # "Initializing"
       THEN Fail("run:Initializing->Thinking")
       ELSE /\ RequestEffect(r, "Thinking")
            /\ wpc' = [wpc EXCEPT ![r] = "think"]
            /\ UNCHANGED <<wasCanceled, pc, cancelOnPausing>>
            /\ RunnerFrame

\* A poll that writes Canceled itself and returns into the body
PollForStopWritesCanceled(r) ==
    /\ Running
    /\ wpc[r] = "think"
    /\ state[r] \in {"Pausing", "Canceling"}
    /\ IF state[r] = "Pausing"
       THEN /\ SetState(r, "Paused")
            /\ \E nsw \in WakeOne(sigWait, r) :
                   sigWait' = [nsw EXCEPT ![r] = @ \cup {"wrk"}]
            /\ wpc' = [wpc EXCEPT ![r] = "pausedwait"]
       ELSE /\ RequestEffect(r, "Canceled")
            /\ UNCHANGED wpc
    /\ UNCHANGED <<wasCanceled, pc, cancelOnPausing>>
    /\ RunnerFrame

\* pollForStopException inside think(): a Pausing runner becomes Paused and
\* blocks on stateChangeSignal; a Canceling one throws StopException.  In any
\* other state the poll returns at once and changes nothing.
PollForStop(r) ==
    /\ Running
    /\ wpc[r] = "think"
    /\ state[r] \in {"Pausing", "Canceling"}
    /\ IF state[r] = "Pausing"
       THEN /\ SetState(r, "Paused")
            /\ \E nsw \in WakeOne(sigWait, r) :
                   sigWait' = [nsw EXCEPT ![r] = @ \cup {"wrk"}]
            /\ wpc' = [wpc EXCEPT ![r] = "pausedwait"]
       ELSE /\ wpc' = [wpc EXCEPT ![r] = "unwinding"]
            /\ UNCHANGED <<state, sigWait>>
    /\ UNCHANGED <<wasCanceled, pc, cancelOnPausing>>
    /\ RunnerFrame

\* The worker woken in pollForStopException: wait again while Paused, go back
\* to Thinking when Resuming, throw StopException when Canceled
PausedWake(r) ==
    /\ Running
    /\ wpc[r] = "pausedwait"
    /\ "wrk" \notin sigWait[r]
    /\ CASE state[r] = "Paused" ->
              /\ sigWait' = [sigWait EXCEPT ![r] = @ \cup {"wrk"}]
              /\ UNCHANGED <<state, wpc>>
         [] state[r] = "Resuming" ->
              /\ RequestEffect(r, "Thinking")
              /\ wpc' = [wpc EXCEPT ![r] = "think"]
         [] OTHER ->
              /\ wpc' = [wpc EXCEPT ![r] = "unwinding"]
              /\ UNCHANGED <<state, sigWait>>
    /\ UNCHANGED <<wasCanceled, pc, cancelOnPausing>>
    /\ RunnerFrame

\* think() returns by itself: the tracked transition Thinking -> Finished
ThinkReturn(r) ==
    /\ Running
    /\ wpc[r] = "think"
    /\ IF state[r] # "Thinking"
       THEN Fail("run:Thinking->Finished")
       ELSE /\ RequestEffect(r, "Finished")
            /\ wpc' = [wpc EXCEPT ![r] = "finishing"]
            /\ wasCanceled' = [wasCanceled EXCEPT ![r] = FALSE]
            /\ UNCHANGED <<pc, cancelOnPausing>>
            /\ RunnerFrame

\* run() catches StopException at the runner boundary and writes Canceled
CatchStop(r) ==
    /\ Running
    /\ wpc[r] = "unwinding"
    /\ RequestEffect(r, "Canceled")
    /\ wpc' = [wpc EXCEPT ![r] = "finishing"]
    /\ wasCanceled' = [wasCanceled EXCEPT ![r] = TRUE]
    /\ UNCHANGED <<pc, cancelOnPausing>>
    /\ RunnerFrame

\* A removeFromThreadMap that leaves the entry in the map
RemoveFromThreadMapKeeps(r) ==
    /\ Running
    /\ wpc[r] = "finishing"
    /\ mapsMutex = "free"
    /\ IF MapRemoveCount(threadMap, wthread[r]) # 1
       THEN Fail("removeFromThreadMap")
       ELSE /\ wpc' = [wpc EXCEPT ![r] = "unregistered"]
            /\ UNCHANGED <<state, holder, thinkerState, thinkerMap, threadMap, mapsMutex,
                           runnerSetToPush, pushDone, pushEvent, wthread, wasCanceled,
                           sigWait, pc, thk, rnr, snap, todo, finishedLog,
                           failure, cancelOnPausing>>

\* removeFromThreadMap
RemoveFromThreadMap(r) ==
    /\ Running
    /\ wpc[r] = "finishing"
    /\ mapsMutex = "free"
    /\ IF MapRemoveCount(threadMap, wthread[r]) # 1
       THEN Fail("removeFromThreadMap")
       ELSE /\ threadMap' = MapRemove(threadMap, wthread[r])
            /\ wpc' = [wpc EXCEPT ![r] = "unregistered"]
            /\ UNCHANGED <<state, holder, thinkerState, thinkerMap, mapsMutex,
                           runnerSetToPush, pushDone, pushEvent, wthread, wasCanceled,
                           sigWait, pc, thk, rnr, snap, todo, finishedLog,
                           failure, cancelOnPausing>>

\* removeFromThinkerMap(runner, wasCanceled)
RemoveFromThinkerMap(r) ==
    /\ Running
    /\ wpc[r] = "unregistered"
    /\ mapsMutex = "free"
    /\ IF RemoveFromThinkerMapFails(thinkerMap, holder[r], thinkerState[holder[r]])
       THEN Fail("removeFromThinkerMap")
       ELSE /\ thinkerMap' = MapRemove(thinkerMap, holder[r])
            /\ thinkerState' =
                   [thinkerState EXCEPT ![holder[r]] = RemovedThinkerState(wasCanceled[r])]
            /\ wpc' = [wpc EXCEPT ![r] = "removed"]
            /\ UNCHANGED <<state, holder, threadMap, mapsMutex,
                           runnerSetToPush, pushDone, pushEvent, wthread, wasCanceled,
                           sigWait, pc, thk, rnr, snap, todo, finishedLog,
                           failure, cancelOnPausing>>

\* An emit that reports the runner's state at the time of the signal
EmitFinishedFromState(r) ==
    /\ Running
    /\ wpc[r] = "removed"
    /\ finishedLog' = [finishedLog EXCEPT ![r] = Append(@, IsCanceled(r))]
    /\ wpc' = [wpc EXCEPT ![r] = "done"]
    /\ UNCHANGED <<state, holder, thinkerState, thinkerMap, threadMap, mapsMutex,
                   runnerSetToPush, pushDone, pushEvent, wthread, wasCanceled,
                   sigWait, pc, thk, rnr, snap, todo, failure,
                   cancelOnPausing>>

\* emit finished(thinker, canceled); run() returns and the thread is free again
EmitFinished(r) ==
    /\ Running
    /\ wpc[r] = "removed"
    /\ finishedLog' = [finishedLog EXCEPT ![r] = Append(@, wasCanceled[r])]
    /\ wpc' = [wpc EXCEPT ![r] = "done"]
    /\ UNCHANGED <<state, holder, thinkerState, thinkerMap, threadMap, mapsMutex,
                   runnerSetToPush, pushDone, pushEvent, wthread, wasCanceled,
                   sigWait, pc, thk, rnr, snap, todo, failure,
                   cancelOnPausing>>


\* ------------------------------------------------- ThinkerManager: operations
CanStart(c) == Running /\ pc[c] = "idle"

FreshRunners == {r \in Runners : state[r] = "NoRunner"}

\* The ThinkerRunner objects constructed so far
LiveRunners == {r \in Runners : state[r] # "NoRunner"}

\* The thinkers create-runner-for is handed: a new thinker (the next one), or
\* one whose runner is still registered
Submittable ==
    {t \in Thinkers : thinkerState[t] = "NotCreated" /\ \A u \in Thinkers : u < t => thinkerState[u] # "NotCreated"}
    \cup {t \in Thinkers : \E r \in Runners : holder[r] = t /\ state[r] \notin TerminalStates}

\* createRunnerForThinker: new ThinkerRunner(holder) in state Initializing,
\* registered by addToThinkerMap, then QThreadPool::start
CreateRunnerForThinker(t) ==
    /\ Running
    /\ pc["ctl"] = "idle"
    /\ FreshRunners # {}
    /\ t \in Submittable
    /\ mapsMutex = "free"
    /\ LET r == Min(FreshRunners) IN
       IF AddToThinkerMapFails(thinkerMap, t)
       THEN Fail("addToThinkerMap")
       ELSE /\ state' = [state EXCEPT ![r] = "Initializing"]
            /\ holder' = [holder EXCEPT ![r] = t]
            /\ thinkerState' = [thinkerState EXCEPT ![t] = "ThinkerOwnedByRunner"]
            /\ thinkerMap' = AddToThinkerMap(thinkerMap, t, r)
            /\ wpc' = [wpc EXCEPT ![r] = "queued"]
            /\ UNCHANGED <<threadMap, mapsMutex, runnerSetToPush, pushDone, pushEvent,
                           wthread, wasCanceled, sigWait, pc, thk, rnr, snap, todo, finishedLog, failure, cancelOnPausing>>

\* A drain that moves one thinker only and still wakes every waiting worker
DoThreadPushesOnlyFirst ==
    /\ Running
    /\ pc["ctl"] = "idle"
    /\ pushEvent
    /\ pushDone' = [r \in Runners |->
                       pushDone[r] \/ (runnerSetToPush # {} /\ r = Min(runnerSetToPush))]
    /\ runnerSetToPush' = {}
    /\ wpc' = [r \in Runners |-> IF wpc[r] = "pushwait" THEN "pushed" ELSE wpc[r]]
    /\ pushEvent' = FALSE
    /\ UNCHANGED <<state, holder, thinkerState, thinkerMap, threadMap, mapsMutex,
                   wthread, wasCanceled, sigWait, pc, thk, rnr, snap, todo,
                   finishedLog, failure, cancelOnPausing>>

\* doThreadPushesIfNecessary -> processThreadPushesUntil(NULL): one drain of
\* runnerSetToPush, then threadsWerePushed.wakeAll()
DoThreadPushesIfNecessary ==
    /\ Running
    /\ pc["ctl"] = "idle"
    /\ pushEvent
    /\ pushDone' = [r \in Runners |-> pushDone[r] \/ r \in runnerSetToPush]
    /\ runnerSetToPush' = {}
    /\ wpc' = [r \in Runners |-> IF wpc[r] = "pushwait" THEN "pushed" ELSE wpc[r]]
    /\ pushEvent' = FALSE
    /\ UNCHANGED <<state, holder, thinkerState, thinkerMap, threadMap, mapsMutex,
                   wthread, wasCanceled, sigWait, pc, thk, rnr, snap, todo,
                   finishedLog, failure, cancelOnPausing>>

\* One round of the forever loop of processThreadPushesUntil(target): the
\* drain, wakeAll, and the return when the target was in the set, else the wait
\* on threadsNeedPushing
PushRound(target) ==
    /\ pushDone' = [r \in Runners |-> pushDone[r] \/ r \in runnerSetToPush]
    /\ runnerSetToPush' = {}
    /\ wpc' = [r \in Runners |-> IF wpc[r] = "pushwait" THEN "pushed" ELSE wpc[r]]
    /\ pc' = [pc EXCEPT !["ctl"] =
                IF target \in runnerSetToPush THEN "idle" ELSE "pp_wait"]
    /\ UNCHANGED <<state, holder, thinkerState, thinkerMap, threadMap, mapsMutex,
                   pushEvent, wthread, wasCanceled, sigWait, thk, snap, todo,
                   finishedLog, failure, cancelOnPausing>>

\* processThreadPushesUntil(runner) with a runner: the call and its first round
ProcessThreadPushesUntil(target) ==
    /\ CanStart("ctl")
    /\ target \in LiveRunners
    /\ rnr' = [rnr EXCEPT !["ctl"] = target]
    /\ PushRound(target)

\* the manager thread woken on threadsNeedPushing: the next round
PushAgain ==
    /\ Running
    /\ pc["ctl"] = "pp_drain"
    /\ UNCHANGED rnr
    /\ PushRound(rnr["ctl"])

\* What a caller's step leaves alone besides its own pc
CallerFrame ==
    UNCHANGED <<holder, thinkerMap, threadMap, runnerSetToPush, pushDone, pushEvent,
                wpc, wthread, wasCanceled, finishedLog, failure>>

\* A caller blocks on stateChangeSignal of r until `reached`, then goes to `next`
WaitStep(c, r, reached, next) ==
    /\ c \notin sigWait[r]
    /\ IF reached
       THEN /\ pc' = [pc EXCEPT ![c] = next]
            /\ UNCHANGED sigWait
       ELSE /\ sigWait' = [sigWait EXCEPT ![r] = @ \cup {c}]
            /\ UNCHANGED pc

\* --- requestAndWaitForCancelButAlreadyCanceledIsOkay(thinker)
\* line 186: maybeGetRunnerForThinker
StartCancel(c, t) ==
    /\ CanStart(c)
    /\ thinkerState[t] # "NotCreated"
    /\ mapsMutex = "free"
    /\ IF LookupFails(thinkerMap, t, thinkerState[t])
       THEN Fail("maybeGetRunnerForThinker")
       ELSE /\ rnr' = [rnr EXCEPT ![c] = MapValue(thinkerMap, t)]
            /\ thk' = [thk EXCEPT ![c] = t]
            /\ pc' = [pc EXCEPT ![c] =
                        IF MapValue(thinkerMap, t) = 0 THEN "rwc_null" ELSE "rwc_request"]
            /\ UNCHANGED <<state, sigWait, thinkerState, mapsMutex, snap,
                           todo, cancelOnPausing>>
            /\ CallerFrame

\* line 188: no runner, the thinker is marked canceled directly
RwcNull(c) ==
    /\ Running
    /\ pc[c] = "rwc_null"
    /\ thinkerState' = [thinkerState EXCEPT ![thk[c]] = "ThinkerCanceled"]
    /\ pc' = [pc EXCEPT ![c] = "rwc_assert"]
    /\ UNCHANGED <<state, sigWait, mapsMutex, thk, rnr, snap, todo,
                   cancelOnPausing>>
    /\ CallerFrame

\* line 191: runner->requestCancelButAlreadyCanceledIsOkay
RwcRequest(c) ==
    /\ Running
    /\ pc[c] = "rwc_request"
    /\ IF RequestCancelFails(state[rnr[c]], TRUE)
       THEN Fail("requestCancel")
       ELSE /\ RequestEffect(rnr[c], RequestCancelTarget(state[rnr[c]]))
            /\ CancelNoted(rnr[c])
            /\ pc' = [pc EXCEPT ![c] = "rwc_wait"]
            /\ UNCHANGED <<thinkerState, mapsMutex, thk, rnr, snap, todo>>
            /\ CallerFrame

\* line 192: runner->waitForFinished
RwcWait(c) ==
    /\ Running
    /\ pc[c] = "rwc_wait"
    /\ WaitStep(c, rnr[c], FinishedReached(state[rnr[c]]), "rwc_assert")
    /\ UNCHANGED <<state, thinkerState, mapsMutex, thk, rnr, snap, todo, cancelOnPausing>>
    /\ CallerFrame

\* line 194: hopefully(thinker.state == ThinkerCanceled), then return
RwcAssert(c) ==
    /\ Running
    /\ pc[c] = "rwc_assert"
    /\ IF thinkerState[thk[c]] # "ThinkerCanceled"
       THEN Fail("requestAndWaitForCancel")
       ELSE /\ pc' = [pc EXCEPT ![c] = "idle"]
            /\ UNCHANGED <<state, sigWait, thinkerState, mapsMutex, thk,
                           rnr, snap, todo, cancelOnPausing>>
            /\ CallerFrame


\* --- ensureThinkersPaused
\* lines 113-116: mapCopy taken under mapsMutex
StartEnsurePaused ==
    /\ CanStart("ctl")
    /\ mapsMutex = "free"
    /\ snap' = MapRunners(thinkerMap)
    /\ todo' = MapRunners(thinkerMap)
    /\ pc' = [pc EXCEPT !["ctl"] =
                IF MapRunners(thinkerMap) = {} THEN "ep_return" ELSE "ep_request"]
    /\ UNCHANGED <<state, sigWait, thinkerState, mapsMutex, thk, rnr,
                   cancelOnPausing>>
    /\ CallerFrame

\* lines 122-128: first pass, requestPauseButCanceledIsOkay on the next runner;
\* i.toFront() after the last one
EpRequest ==
    /\ Running
    /\ pc["ctl"] = "ep_request"
    /\ LET r == Min(todo) IN
       IF RequestPauseFails(state[r], TRUE)
       THEN Fail("requestPause")
       ELSE /\ RequestEffect(r, RequestPauseTarget(state[r]))
            /\ IF todo = {r}
               THEN /\ todo' = snap
                    /\ pc' = [pc EXCEPT !["ctl"] = "ep_wait"]
               ELSE /\ todo' = todo \ {r}
                    /\ UNCHANGED pc
            /\ UNCHANGED <<thinkerState, mapsMutex, thk, rnr, snap, cancelOnPausing>>
            /\ CallerFrame

\* A second pass that does not wait for the runners
EpWaitSkipped ==
    /\ Running
    /\ pc["ctl"] = "ep_wait"
    /\ todo' = {}
    /\ pc' = [pc EXCEPT !["ctl"] = "ep_return"]
    /\ UNCHANGED <<state, sigWait, thinkerState, mapsMutex, thk, rnr, snap,
                   cancelOnPausing>>
    /\ CallerFrame

\* lines 131-135: second pass, waitForPauseButCanceledIsOkay on the next runner
EpWait ==
    /\ Running
    /\ pc["ctl"] = "ep_wait"
    /\ LET r == Min(todo) IN
       /\ "ctl" \notin sigWait[r]
       /\ IF PauseReached(state[r])
          THEN /\ todo' = todo \ {r}
               /\ pc' = [pc EXCEPT !["ctl"] = IF todo = {r} THEN "ep_return" ELSE "ep_wait"]
               /\ UNCHANGED sigWait
          ELSE /\ sigWait' = [sigWait EXCEPT ![r] = @ \cup {"ctl"}]
               /\ UNCHANGED <<todo, pc>>
    /\ UNCHANGED <<state, thinkerState, mapsMutex, thk, rnr, snap,
                   cancelOnPausing>>
    /\ CallerFrame

\* line 136: ensureThinkersPaused returns
EpReturn ==
    /\ Running
    /\ pc["ctl"] = "ep_return"
    /\ pc' = [pc EXCEPT !["ctl"] = "idle"]
    /\ snap' = {}
    /\ UNCHANGED <<state, sigWait, thinkerState, mapsMutex, thk, rnr, todo, cancelOnPausing>>
    /\ CallerFrame

\* --- ensureThinkersResumed: the whole iteration holds mapsMutex
\* line 142
StartEnsureResumed ==
    /\ CanStart("ctl")
    /\ mapsMutex = "free"
    /\ todo' = MapRunners(thinkerMap)
    /\ IF MapRunners(thinkerMap) = {}
       THEN UNCHANGED <<pc, mapsMutex>>
       ELSE /\ pc' = [pc EXCEPT !["ctl"] = "er_check"]
            /\ mapsMutex' = "ctl"
    /\ UNCHANGED <<state, sigWait, thinkerState, thk, rnr, snap,
                   cancelOnPausing>>
    /\ CallerFrame

\* line 149: runner->isPaused() on the next runner
ErCheck ==
    /\ Running
    /\ pc["ctl"] = "er_check"
    /\ LET r == Min(todo) IN
       IF IsPaused(r)
       THEN /\ pc' = [pc EXCEPT !["ctl"] = "er_request"]
            /\ UNCHANGED <<todo, mapsMutex>>
       ELSE /\ todo' = todo \ {r}
            /\ pc' = [pc EXCEPT !["ctl"] = IF todo = {r} THEN "idle" ELSE "er_check"]
            /\ mapsMutex' = IF todo = {r} THEN "free" ELSE mapsMutex
    /\ UNCHANGED <<state, sigWait, thinkerState, thk, rnr, snap,
                   cancelOnPausing>>
    /\ CallerFrame

\* A resume request that does not accept a canceled runner
ErRequestStrict ==
    /\ Running
    /\ pc["ctl"] = "er_request"
    /\ LET r == Min(todo) IN
       IF RequestResumeFails(state[r], FALSE)
       THEN Fail("requestResume")
       ELSE /\ RequestEffect(r, RequestResumeTarget(state[r]))
            /\ todo' = todo \ {r}
            /\ pc' = [pc EXCEPT !["ctl"] = IF todo = {r} THEN "idle" ELSE "er_check"]
            /\ mapsMutex' = IF todo = {r} THEN "free" ELSE mapsMutex
            /\ UNCHANGED <<thinkerState, thk, rnr, snap, cancelOnPausing>>
            /\ CallerFrame

\* line 150: runner->requestResumeButCanceledIsOkay
ErRequest ==
    /\ Running
    /\ pc["ctl"] = "er_request"
    /\ LET r == Min(todo) IN
       IF RequestResumeFails(state[r], TRUE)
       THEN Fail("requestResume")
       ELSE /\ RequestEffect(r, RequestResumeTarget(state[r]))
            /\ todo' = todo \ {r}
            /\ pc' = [pc EXCEPT !["ctl"] = IF todo = {r} THEN "idle" ELSE "er_check"]
            /\ mapsMutex' = IF todo = {r} THEN "free" ELSE mapsMutex
            /\ UNCHANGED <<thinkerState, thk, rnr, snap, cancelOnPausing>>
            /\ CallerFrame

\* --- ~ThinkerManager: the iteration holds mapsMutex
\* lines 336-338
StartDestroy ==
    /\ CanStart("ctl")
    /\ mapsMutex = "free"
    /\ todo' = MapRunners(thinkerMap)
    /\ IF MapRunners(thinkerMap) = {}
       THEN /\ pc' = [pc EXCEPT !["ctl"] = "destroyed"]
            /\ UNCHANGED mapsMutex
       ELSE /\ pc' = [pc EXCEPT !["ctl"] = "dt_check"]
            /\ mapsMutex' = "ctl"
    /\ UNCHANGED <<state, sigWait, thinkerState, thk, rnr, snap,
                   cancelOnPausing>>
    /\ CallerFrame

\* lines 339-343: hopefully(runner->isCanceled() or runner->isFinished())
DtCheck ==
    /\ Running
    /\ pc["ctl"] = "dt_check"
    /\ LET r == Min(todo) IN
       IF ~(IsCanceled(r) \/ IsFinished(r))
       THEN Fail("~ThinkerManager")
       ELSE /\ todo' = todo \ {r}
            /\ pc' = [pc EXCEPT !["ctl"] = IF todo = {r} THEN "dt_waitfordone" ELSE "dt_check"]
            /\ mapsMutex' = IF todo = {r} THEN "free" ELSE mapsMutex
            /\ UNCHANGED <<state, sigWait, thinkerState, thk, rnr, snap,
                           cancelOnPausing>>
            /\ CallerFrame

\* lines 347-348: QThreadPool::waitForDone, every runnable has returned
DtWaitForDone ==
    /\ Running
    /\ pc["ctl"] = "dt_waitfordone"
    /\ \A r \in Runners : wpc[r] \in {"none", "done"}
    /\ pc' = [pc EXCEPT !["ctl"] = "destroyed"]
    /\ UNCHANGED <<state, sigWait, thinkerState, mapsMutex, thk, rnr, snap,
                   todo, cancelOnPausing>>
    /\ CallerFrame

\* --- ensureThinkerFinished(thinker)
\* line 202: maybeGetRunnerForThinker
StartEnsureFinished(t) ==
    /\ CanStart("ctl")
    /\ thinkerState[t] # "NotCreated"
    /\ mapsMutex = "free"
    /\ IF LookupFails(thinkerMap, t, thinkerState[t])
       THEN Fail("maybeGetRunnerForThinker")
       ELSE /\ rnr' = [rnr EXCEPT !["ctl"] = MapValue(thinkerMap, t)]
            /\ thk' = [thk EXCEPT !["ctl"] = t]
            /\ pc' = [pc EXCEPT !["ctl"] =
                        IF MapValue(thinkerMap, t) = 0 THEN "ef_final" ELSE "ef_notcanceled"]
            /\ UNCHANGED <<state, sigWait, thinkerState, mapsMutex, snap,
                           todo, cancelOnPausing>>
            /\ CallerFrame

\* line 205: hopefully(not runner->isCanceled())
EfNotCanceled ==
    /\ Running
    /\ pc["ctl"] = "ef_notcanceled"
    /\ IF IsCanceled(rnr["ctl"])
       THEN Fail("ensureThinkerFinished:isCanceled")
       ELSE /\ pc' = [pc EXCEPT !["ctl"] = "ef_ispaused"]
            /\ UNCHANGED <<state, sigWait, thinkerState, mapsMutex, thk,
                           rnr, snap, todo, cancelOnPausing>>
            /\ CallerFrame

\* line 210: if (runner->isPaused())
EfIsPaused ==
    /\ Running
    /\ pc["ctl"] = "ef_ispaused"
    /\ pc' = [pc EXCEPT !["ctl"] =
                IF IsPaused(rnr["ctl"]) THEN "ef_resume" ELSE "ef_waitfinished"]
    /\ UNCHANGED <<state, sigWait, thinkerState, mapsMutex, thk, rnr, snap,
                   todo, cancelOnPausing>>
    /\ CallerFrame

\* line 211: runner->requestResume
EfResume ==
    /\ Running
    /\ pc["ctl"] = "ef_resume"
    /\ IF RequestResumeFails(state[rnr["ctl"]], FALSE)
       THEN Fail("requestResume")
       ELSE /\ RequestEffect(rnr["ctl"], RequestResumeTarget(state[rnr["ctl"]]))
            /\ pc' = [pc EXCEPT !["ctl"] = "ef_waitresume"]
            /\ UNCHANGED <<thinkerState, mapsMutex, thk, rnr, snap, todo,
                           cancelOnPausing>>
            /\ CallerFrame

\* line 212: runner->waitForResume
EfWaitResume ==
    /\ Running
    /\ pc["ctl"] = "ef_waitresume"
    /\ WaitStep("ctl", rnr["ctl"], ResumeReached(state[rnr["ctl"]]), "ef_waitfinished")
    /\ UNCHANGED <<state, thinkerState, mapsMutex, thk, rnr, snap, todo, cancelOnPausing>>
    /\ CallerFrame

\* line 215: runner->waitForFinished
EfWaitFinished ==
    /\ Running
    /\ pc["ctl"] = "ef_waitfinished"
    /\ WaitStep("ctl", rnr["ctl"], FinishedReached(state[rnr["ctl"]]), "ef_isfinished")
    /\ UNCHANGED <<state, thinkerState, mapsMutex, thk, rnr, snap, todo, cancelOnPausing>>
    /\ CallerFrame

\* lines 216-217: hopefully(runner->isFinished()); thinker.state = ThinkerFinished
EfIsFinished ==
    /\ Running
    /\ pc["ctl"] = "ef_isfinished"
    /\ IF ~IsFinished(rnr["ctl"])
       THEN Fail("ensureThinkerFinished:isFinished")
       ELSE /\ thinkerState' = [thinkerState EXCEPT ![thk["ctl"]] = "ThinkerFinished"]
            /\ pc' = [pc EXCEPT !["ctl"] = "ef_final"]
            /\ UNCHANGED <<state, sigWait, mapsMutex, thk, rnr, snap, todo, cancelOnPausing>>
            /\ CallerFrame

\* line 220: hopefully(thinker.state == ThinkerFinished), then return
EfFinal ==
    /\ Running
    /\ pc["ctl"] = "ef_final"
    /\ IF thinkerState[thk["ctl"]] # "ThinkerFinished"
       THEN Fail("ensureThinkerFinished:state")
       ELSE /\ pc' = [pc EXCEPT !["ctl"] = "idle"]
            /\ UNCHANGED <<state, sigWait, thinkerState, mapsMutex, thk,
                           rnr, snap, todo, cancelOnPausing>>
            /\ CallerFrame

\* --- the runner's public slots, called on a runner directly
\* requestPause / requestPauseButCanceledIsOkay
RequestPause(c, r, isCanceledOkay) ==
    /\ CanStart(c)
    /\ r \in LiveRunners
    /\ IF RequestPauseFails(state[r], isCanceledOkay)
       THEN Fail("requestPause")
       ELSE /\ RequestEffect(r, RequestPauseTarget(state[r]))
            /\ UNCHANGED <<thinkerState, mapsMutex, pc, thk, rnr, snap, todo,
                           cancelOnPausing>>
            /\ CallerFrame

\* requestResume / requestResumeButCanceledIsOkay
RequestResume(c, r, isCanceledOkay) ==
    /\ CanStart(c)
    /\ r \in LiveRunners
    /\ IF RequestResumeFails(state[r], isCanceledOkay)
       THEN Fail("requestResume")
       ELSE /\ RequestEffect(r, RequestResumeTarget(state[r]))
            /\ UNCHANGED <<thinkerState, mapsMutex, pc, thk, rnr, snap, todo,
                           cancelOnPausing>>
            /\ CallerFrame

\* requestCancel / requestCancelButAlreadyCanceledIsOkay
RequestCancel(c, r, isAlreadyCanceledOkay) ==
    /\ CanStart(c)
    /\ r \in LiveRunners
    /\ IF RequestCancelFails(state[r], isAlreadyCanceledOkay)
       THEN Fail("requestCancel")
       ELSE /\ RequestEffect(r, RequestCancelTarget(state[r]))
            /\ CancelNoted(r)
            /\ UNCHANGED <<thinkerState, mapsMutex, pc, thk, rnr, snap, todo>>
            /\ CallerFrame

\* ------------------------------------------------------------ the program
Init ==
    /\ state = [r \in Runners |-> "NoRunner"]
    /\ holder = [r \in Runners |-> 0]
    /\ thinkerState = [t \in Thinkers |-> "NotCreated"]
    /\ thinkerMap = {}
    /\ threadMap = {}
    /\ mapsMutex = "free"
    /\ runnerSetToPush = {}
    /\ pushDone = [r \in Runners |-> FALSE]
    /\ pushEvent = FALSE
    /\ wpc = [r \in Runners |-> "none"]
    /\ wthread = [r \in Runners |-> 0]
    /\ wasCanceled = [r \in Runners |-> FALSE]
    /\ sigWait = [r \in Runners |-> {}]
    /\ pc = [c \in Callers |-> "idle"]
    /\ thk = [c \in Callers |-> 0]
    /\ rnr = [c \in Callers |-> 0]
    /\ snap = {}
    /\ todo = {}
    /\ finishedLog = [r \in Runners |-> <<>>]
    /\ failure = "none"
    /\ cancelOnPausing = [r \in Runners |-> FALSE]

Worker(r) ==
    \/ RunBegin(r)
    \/ AddToThreadMap(r)
    \/ BeginThinking(r)
    \/ PollForStop(r)
    \/ PausedWake(r)
    \/ ThinkReturn(r)
    \/ CatchStop(r)
    \/ RemoveFromThreadMap(r)
    \/ RemoveFromThinkerMap(r)
    \/ EmitFinished(r)

Next ==
    \/ \E r \in Runners : Worker(r)
    \/ \E t \in Thinkers : CreateRunnerForThinker(t)
    \/ DoThreadPushesIfNecessary
    \/ \E c \in Callers, t \in Thinkers : StartCancel(c, t)
    \/ \E c \in Callers : RwcNull(c) \/ RwcRequest(c) \/ RwcWait(c) \/ RwcAssert(c)
    \/ StartEnsurePaused \/ EpRequest \/ EpWait \/ EpReturn
    \/ StartEnsureResumed \/ ErCheck \/ ErRequest
    \/ \E t \in Thinkers : StartEnsureFinished(t)
    \/ EfNotCanceled \/ EfIsPaused \/ EfResume \/ EfWaitResume \/ EfWaitFinished
    \/ EfIsFinished \/ EfFinal
    \/ \E c \in Callers, r \in Runners, ok \in BOOLEAN :
           RequestPause(c, r, ok) \/ RequestResume(c, r, ok) \/ RequestCancel(c, r, ok)

Spec == Init /\ [][Next]_vars


\* createRunnerForThinker while fewer than `limit` runners exist
Create(limit) ==
    \E t \in Thinkers :
        /\ Cardinality(LiveRunners) < limit
        /\ CreateRunnerForThinker(t)

\* The runner's slots called directly by the manager thread and a handle thread
NextRequests ==
    \/ \E r \in Runners : Worker(r)
    \/ Create(SlotRunners)
    \/ DoThreadPushesIfNecessary
    \/ \E c \in Callers, r \in Runners, ok \in BOOLEAN :
           RequestPause(c, r, ok) \/ RequestResume(c, r, ok) \/ RequestCancel(c, r, ok)

SpecRequests == Init /\ [][NextRequests]_vars


\* ensureThinkersPaused on the manager thread while a handle thread cancels
NextPause ==
    \/ \E r \in Runners : Worker(r)
    \/ Create(PauseRunners)
    \/ DoThreadPushesIfNecessary
    \/ StartEnsurePaused \/ EpRequest \/ EpWait \/ EpReturn
    \/ \E r \in Runners, ok \in BOOLEAN : RequestCancel("hdl", r, ok)

SpecPause == Init /\ [][NextPause]_vars

\* --- a caller that cancels a runner twice and then waits for it
\* requestCancelButAlreadyCanceledIsOkay, the first call
CancelTwiceFirst(c, r) ==
    /\ CanStart(c)
    /\ r \in LiveRunners
    /\ RequestEffect(r, RequestCancelTarget(state[r]))
    /\ CancelNoted(r)
    /\ rnr' = [rnr EXCEPT ![c] = r]
    /\ pc' = [pc EXCEPT ![c] = "ct_second"]
    /\ UNCHANGED <<thinkerState, mapsMutex, thk, snap, todo>>
    /\ CallerFrame

\* requestCancelButAlreadyCanceledIsOkay, the second call
CancelTwiceSecond(c) ==
    /\ Running
    /\ pc[c] = "ct_second"
    /\ RequestEffect(rnr[c], RequestCancelTarget(state[rnr[c]]))
    /\ CancelNoted(rnr[c])
    /\ pc' = [pc EXCEPT ![c] = "ct_wait"]
    /\ UNCHANGED <<thinkerState, mapsMutex, thk, rnr, snap, todo>>
    /\ CallerFrame

\* waitForFinished
CancelTwiceWait(c) ==
    /\ Running
    /\ pc[c] = "ct_wait"
    /\ WaitStep(c, rnr[c], FinishedReached(state[rnr[c]]), "idle")
    /\ UNCHANGED <<state, thinkerState, mapsMutex, thk, rnr, snap, todo, cancelOnPausing>>
    /\ CallerFrame

\* The steps of run() other than think() returning by itself: a body may poll
\* for ever
WorkerProgress(r) ==
    \/ RunBegin(r)
    \/ AddToThreadMap(r)
    \/ BeginThinking(r)
    \/ PollForStop(r)
    \/ PausedWake(r)
    \/ CatchStop(r)
    \/ RemoveFromThreadMap(r)
    \/ RemoveFromThinkerMap(r)
    \/ EmitFinished(r)

\* A handle thread drops handles (requestAndWaitForCancel...) while the manager
\* thread pauses and resumes runners and serves the thread pushes
RwcSteps(c) == RwcNull(c) \/ RwcRequest(c) \/ RwcWait(c) \/ RwcAssert(c)

NextCancel ==
    \/ \E r \in Runners : Worker(r)
    \/ Create(CancelRunners)
    \/ DoThreadPushesIfNecessary
    \/ \E t \in Thinkers : StartCancel("hdl", t)
    \/ RwcSteps("hdl")
    \/ \E r \in Runners, ok \in BOOLEAN :
           RequestPause("ctl", r, ok) \/ RequestResume("ctl", r, ok)

\* Every thread is scheduled fairly; only the natural return of think() is
\* left to the body
SpecCancel ==
    /\ Init
    /\ [][NextCancel]_vars
    /\ \A r \in Runners : WF_vars(WorkerProgress(r))
    /\ WF_vars(DoThreadPushesIfNecessary)
    /\ WF_vars(RwcSteps("hdl"))

\* A caller cancels a runner twice in a row
NextCancelTwice ==
    \/ \E r \in Runners : Worker(r)
    \/ Create(CancelRunners)
    \/ DoThreadPushesIfNecessary
    \/ \E r \in Runners : CancelTwiceFirst("hdl", r)
    \/ CancelTwiceSecond("hdl")
    \/ CancelTwiceWait("hdl")
    \/ \E r \in Runners, ok \in BOOLEAN :
           RequestPause("ctl", r, ok) \/ RequestResume("ctl", r, ok)

SpecCancelTwice == Init /\ [][NextCancelTwice]_vars

\* ensureThinkerFinished on the manager thread, which may have paused the
\* runner before, while a handle thread cancels
EfSteps ==
    \/ EfNotCanceled \/ EfIsPaused \/ EfResume \/ EfWaitResume
    \/ EfWaitFinished \/ EfIsFinished \/ EfFinal

NextFinish ==
    \/ \E r \in Runners : Worker(r)
    \/ Create(FinishRunners)
    \/ DoThreadPushesIfNecessary
    \/ \E t \in Thinkers : StartEnsureFinished(t)
    \/ EfSteps
    \/ \E r \in Runners, ok \in BOOLEAN : RequestPause("ctl", r, ok)
    \/ \E t \in Thinkers : StartCancel("hdl", t)
    \/ RwcSteps("hdl")

SpecFinish == Init /\ [][NextFinish]_vars

\* ensureThinkersResumed and the destructor on the manager thread, which pauses
\* runners before, while a handle thread cancels
ErSteps == ErCheck \/ ErRequest

NextResume ==
    \/ \E r \in Runners : Worker(r)
    \/ Create(ResumeRunners)
    \/ DoThreadPushesIfNecessary
    \/ \E r \in Runners, ok \in BOOLEAN : RequestPause("ctl", r, ok)
    \/ StartEnsureResumed
    \/ ErSteps
    \/ StartDestroy \/ DtCheck \/ DtWaitForDone
    \/ \E r \in Runners, ok \in BOOLEAN : RequestCancel("hdl", r, ok)

SpecResume == Init /\ [][NextResume]_vars

\* The push protocol: workers queue for the push, the manager thread serves the
\* queued notification and calls processThreadPushesUntil for a runner, while a
\* handle thread sends the runners requests
NextPush ==
    \/ \E r \in Runners : Worker(r)
    \/ Create(PushRunners)
    \/ DoThreadPushesIfNecessary
    \/ \E r \in Runners : ProcessThreadPushesUntil(r)
    \/ PushAgain
    \/ \E r \in Runners :
           RequestPause("hdl", r, TRUE) \/ RequestResume("hdl", r, TRUE)
               \/ RequestCancel("hdl", r, TRUE)

SpecPush ==
    /\ Init
    /\ [][NextPush]_vars
    /\ \A r \in Runners : WF_vars(WorkerProgress(r))
    /\ WF_vars(DoThreadPushesIfNecessary)
    /\ WF_vars(PushAgain)

\* Several waiters on one runner's stateChangeSignal: the manager thread in
\* ensureThinkersPaused, a handle thread in requestAndWaitForCancel..., and the
\* worker in Paused
EpSteps == EpRequest \/ EpWait \/ EpReturn

NextWaiters ==
    \/ \E r \in Runners : Worker(r)
    \/ Create(WaitRunners)
    \/ DoThreadPushesIfNecessary
    \/ StartEnsurePaused
    \/ EpSteps
    \/ \E t \in Thinkers : StartCancel("hdl", t)
    \/ RwcSteps("hdl")

SpecWaiters ==
    /\ Init
    /\ [][NextWaiters]_vars
    /\ \A r \in Runners : WF_vars(WorkerProgress(r))
    /\ WF_vars(DoThreadPushesIfNecessary)
    /\ WF_vars(EpSteps)
    /\ WF_vars(RwcSteps("hdl"))

\* ================================================================ properties

C2_TerminalMonotone ==
    [][\A r \in Runners :
          /\ state[r] \in TerminalStates => state'[r] \in TerminalStates
          /\ state[r] = "Canceled" => state'[r] = "Canceled"]_vars

\* C2 witness: a runner that finished by itself (finished(canceled = false))
\* was relabeled Canceled, and its worker has completed its terminal steps.
C2_Witness ==
    \E r \in Runners :
        /\ state[r] = "Canceled"
        /\ finishedLog[r] = <<FALSE>>
        /\ wpc[r] = "done"

\* C3: when ensureThinkersPaused returns, every runner of its snapshot is
\* Paused or Canceled and its worker is not executing the user body.
C3_PauseQuiescence ==
    pc["ctl"] = "ep_return" =>
        \A r \in snap : state[r] \in {"Paused", "Canceled"} /\ wpc[r] # "think"

\* C3 witness: ensureThinkersPaused returns for a snapshot of two runners, one
\* paused by it and one canceled by the handle thread meanwhile.
C3_Witness ==
    /\ pc["ctl"] = "ep_return"
    /\ Cardinality(snap) >= 2
    /\ \E r \in snap : state[r] = "Paused" /\ wpc[r] = "pausedwait"
    /\ \E r \in snap : state[r] = "Canceled" /\ wasCanceled[r]

\* C4: under fair scheduling, with a body that keeps polling, a request-cancel
\* followed by wait-for-finished on the same thread eventually returns (or the
\* program has stopped on a failed hopefully), whatever state the runner was in.
C4_CancelThenWaitReturns ==
    (pc["hdl"] = "rwc_wait") ~> (pc["hdl"] = "rwc_assert" \/ ~Running)

\* C5: whenever requestAndWaitForCancelButAlreadyCanceledIsOkay reaches its
\* final hopefully, thinker.state is ThinkerCanceled.
C5_CancelPostcondition ==
    \A c \in Callers : pc[c] = "rwc_assert" => thinkerState[thk[c]] = "ThinkerCanceled"

\* C6: whenever mapsMutex is free, a constructed thinker is a key of thinkerMap
\* iff its state is ThinkerOwnedByRunner, so removeFromThinkerMap always finds
\* ThinkerOwnedByRunner and a lookup is null only for a finished or canceled one.
C6_MapStateCoherence ==
    /\ mapsMutex = "free" =>
           \A t \in Thinkers :
               thinkerState[t] # "NotCreated" =>
                   (MapContains(thinkerMap, t) <=> thinkerState[t] = "ThinkerOwnedByRunner")
    /\ failure \notin {"removeFromThinkerMap", "maybeGetRunnerForThinker"}

\* C7: ensureThinkerFinished, called for a thinker whose runner is not
\* Canceled, fails none of its hopefullys, also while a handle thread cancels:
\* after waitForFinished the runner is Finished, so the hopefully on
\* runner->isFinished() holds.
C7_EnsureFinishedSucceeds ==
    failure # "ensureThinkerFinished:isFinished"

\* C8: a second requestCancelButAlreadyCanceledIsOkay fails no hopefully and
\* changes nothing the first one left: the runner's state stays as it found it.
C8_SecondCancelChangesNothing ==
    [][(pc["hdl"] = "ct_second" /\ pc'["hdl"] = "ct_wait")
          => (state' = state /\ failure' = failure)]_vars

\* C9: thinkerMap never holds two runners for one thinker; a second
\* createRunnerForThinker while the first runner is registered stops in
\* addToThinkerMap's hopefully and the entry still points at the first runner.
C9_SingleOwnership ==
    /\ \A p \in thinkerMap, q \in thinkerMap : p[1] = q[1] => p = q
    /\ \A p \in thinkerMap : p[2] = Min({r \in Runners : holder[r] = p[1]})
    /\ \A r1 \in Runners, r2 \in Runners :
           (r1 # r2 /\ holder[r1] # 0) => holder[r1] # holder[r2]
    /\ failure = "addToThinkerMap" =>
           \E p \in thinkerMap : state[p[2]] \notin TerminalStates

\* C9 witness: the second createRunnerForThinker for a thinker whose runner is
\* thinking stopped on the hopefully and the map still holds the first runner.
C9_Witness ==
    /\ failure = "addToThinkerMap"
    /\ \E p \in thinkerMap : state[p[2]] = "Thinking" /\ holder[p[2]] = p[1]

C11_FinishedEmittedOnce ==
    \A r \in Runners :
        /\ Len(finishedLog[r]) <= 1
        /\ (wpc[r] = "done" <=> Len(finishedLog[r]) = 1)
        /\ finishedLog[r] # <<>> => finishedLog[r] = <<wasCanceled[r]>>
        /\ finishedLog[r] = <<TRUE>> => state[r] = "Canceled"
        /\ finishedLog[r] = <<FALSE>> => state[r] \in {"Finished", "Canceled"}

\* C11 witness: one runner finished by itself, emitted finished(FALSE) and was
\* relabeled Canceled afterwards; another was unwound and emitted finished(TRUE).
C11_Witness ==
    /\ \E r \in Runners :
           state[r] = "Canceled" /\ ~wasCanceled[r] /\ finishedLog[r] = <<FALSE>>
    /\ \E r \in Runners : wasCanceled[r] /\ finishedLog[r] = <<TRUE>>

\* A step of ensureThinkersResumed's iteration
ErStepTaken ==
    /\ pc["ctl"] \in {"er_check", "er_request"}
    /\ pc'["ctl"] # pc["ctl"] \/ todo' # todo \/ failure' = "requestResume"

\* C12: a step of ensureThinkersResumed fails no hopefully and changes a
\* runner's state only from Paused to Resuming, also when a handle thread
\* cancels the runner between the isPaused check and the resume request.
C12_ResumeOnlyPaused ==
    [][ErStepTaken =>
          /\ failure' = failure
          /\ \A r \in Runners :
                 state'[r] # state[r] =>
                     (r = Min(todo) /\ state[r] = "Paused" /\ state'[r] = "Resuming")]_vars

\* C12 witness: one runner was set Resuming by the iteration, and the next one
\* was canceled after isPaused() returned true and before the resume request.
C12_Witness ==
    /\ pc["ctl"] = "er_request"
    /\ state[Min(todo)] = "Canceled"
    /\ \E r \in Runners : r \notin todo /\ state[r] = "Resuming"

\* A step of the manager thread that locks a runner's signalMutex (isPaused,
\* isCanceled, isFinished, requestResumeCore)
LocksSignalMutex ==
    /\ pc["ctl"] \in {"er_check", "er_request", "dt_check"}
    /\ pc'["ctl"] # pc["ctl"] \/ todo' # todo \/ failure' # failure

\* C13: no thread locks a runner's signalMutex while it holds mapsMutex.
C13_NoSignalMutexUnderMapsMutex ==
    [][~(mapsMutex = "ctl" /\ LocksSignalMutex)]_vars

\* C14: a worker that has left waitForPushToThread had its thinker pushed; a
\* worker still waiting has its runner in runnerSetToPush, so the wakeAll that
\* wakes it belongs to a drain that pushes it; no runner leaves Initializing
\* before its push.
C14_WokenOnlyAfterPush ==
    \A r \in Runners :
        /\ wpc[r] \notin {"none", "queued", "pushwait"} => pushDone[r]
        /\ wpc[r] = "pushwait" => r \in runnerSetToPush
        /\ state[r] \notin {"NoRunner", "Initializing"} => pushDone[r]

\* C14 witness: two workers queued for the push and one drain woke both.
C14_Witness ==
    /\ \A r \in Runners : wpc[r] = "pushed" /\ pushDone[r]
    /\ runnerSetToPush = {}

\* C15: processThreadPushesUntil(R) eventually returns for a runner R whose
\* worker called waitForPushToThread, also when R's push was drained earlier
\* (a run a failed hopefully has ended is not held against it).
C15_ProcessPushesReturns ==
    (pc["ctl"] = "pp_wait" /\ pushDone[rnr["ctl"]])
        ~> (pc["ctl"] = "idle" \/ ~Running)

\* The positions of run() after StopException was thrown
Unwound == {"unwinding", "finishing", "unregistered", "removed", "done"}

\* C16: StopException is thrown only by a poll that saw Canceling or Canceled;
\* from then on the worker never is in think() again; the exception is caught
\* once, at run()'s boundary, and only there the worker writes Canceled.
C16_NoBodyStepAfterStop ==
    [][\A r \in Runners :
          /\ wpc[r] \in Unwound => wpc'[r] \in Unwound
          /\ (wpc[r] # "unwinding" /\ wpc'[r] = "unwinding") =>
                 (wpc[r] \in {"think", "pausedwait"} /\ state[r] \in {"Canceling", "Canceled"})
          /\ (wpc[r] = "unwinding" /\ wpc'[r] # "unwinding") =>
                 (wpc'[r] = "finishing" /\ state'[r] = "Canceled" /\ wasCanceled'[r])
          /\ (wasCanceled'[r] # wasCanceled[r]) => (wpc[r] = "unwinding" /\ ~wasCanceled[r])
          /\ (state[r] = "Canceling" /\ state'[r] = "Canceled") => wpc[r] = "unwinding"]_vars

\* C16 witness: one worker left the body on Canceling, another was woken in
\* Paused by a cancel and left the body with the state already Canceled.
C16_Witness ==
    /\ \E r \in Runners : wpc[r] = "unwinding" /\ state[r] = "Canceling"
    /\ \E r \in Runners : wpc[r] = "unwinding" /\ state[r] = "Canceled"

\* The positions of run() between addToThreadMap and removeFromThreadMap
Registered == {"registered", "think", "pausedwait", "unwinding", "finishing"}

\* C17 as stated: a pool thread is a key of threadMap iff a runner is executing
\* or suspended on it, and it maps to that runner; the hopefullys of
\* addToThreadMap and removeFromThreadMap never fail.
C17_ThreadMapIffRunnerOnThread ==
    /\ \A th \in PoolThreads :
           MapContains(threadMap, th) <=>
               \E r \in Runners : WorkerActive(r) /\ wthread[r] = th
    /\ \A p \in threadMap : WorkerActive(p[2]) /\ wthread[p[2]] = p[1]
    /\ failure \notin {"addToThreadMap", "removeFromThreadMap"}

\* C17 amended: a pool thread is a key of threadMap iff a runner on it is
\* between its addToThreadMap and its removeFromThreadMap, and it maps to that
\* runner; the hopefullys of addToThreadMap and removeFromThreadMap never fail,
\* also when the pool reuses the thread for a later runner.
C17_ThreadMapIffRegistered ==
    /\ \A th \in PoolThreads :
           MapContains(threadMap, th) <=>
               \E r \in Runners : wpc[r] \in Registered /\ wthread[r] = th
    /\ \A p \in threadMap : wpc[p[2]] \in Registered /\ wthread[p[2]] = p[1]
    /\ \A p \in threadMap, q \in threadMap : p[1] = q[1] => p = q
    /\ failure \notin {"addToThreadMap", "removeFromThreadMap"}

\* C17 witness: a pool thread that ran one runner to its end is registered
\* again for a later runner.
C17_Witness ==
    \E r1 \in Runners, r2 \in Runners :
        /\ r1 # r2
        /\ wthread[r1] = wthread[r2]
        /\ wpc[r1] = "done"
        /\ <<wthread[r2], r2>> \in threadMap

\* C18: requestPauseButCanceledIsOkay on a Canceling runner fails no hopefully
\* and leaves the runner's state as it is, and the state it leaves ends a
\* following waitForPauseButCanceledIsOkay without a further worker step.
C18_PauseOnCancelingAccepted ==
    [][\A c \in Callers, r \in Runners :
          (state[r] = "Canceling" /\ RequestPause(c, r, TRUE)) =>
              /\ failure' = failure
              /\ state'[r] = state[r]
              /\ PauseReached(state'[r])]_vars

\* C19: ensureThinkersPaused fails no hopefully, whatever states the runners
\* of its snapshot are in when the pause request reaches them (Initializing
\* and Finished included).
C19_EnsurePausedNoAssertion ==
    ~(pc["ctl"] = "ep_request" /\ failure = "requestPause")

\* C20: a thread blocked on a runner's stateChangeSignal is woken once the
\* state it waits for is reached, also when another thread waits on the same
\* signal: the manager thread in waitForPause and the handle thread in
\* waitForFinished both leave their wait once the runner is Canceled.
C20_WaitersWoken ==
    /\ (pc["hdl"] = "rwc_wait" /\ state[rnr["hdl"]] = "Canceled")
           ~> (pc["hdl"] # "rwc_wait" \/ ~Running)
    /\ (pc["ctl"] = "ep_wait" /\ \A r \in todo : state[r] = "Canceled")
           ~> (pc["ctl"] # "ep_wait" \/ ~Running)

=============================================================================
